---- MODULE Spec2Model ----
(***************************************************************************)
(* Persistence layer of the stock-tip application: the schema of           *)
(* core/models.py, the session factory of data/database.py and the        *)
(* data-access functions of data/crud.py, as a state machine over the      *)
(* committed tables and one caller-supplied session.                       *)
(*                                                                         *)
(* Strings are sequences of characters, so that str.upper() is computed.   *)
(* An Optional[T] value is None (the empty tuple) or Some(x) (a 1-tuple).  *)
(* A transient object's id attribute (None in Python until the flush) is   *)
(* NoId; ids given by the tables start at 1.                               *)
(***************************************************************************)
EXTENDS Integers, Sequences, FiniteSets, TLC

VARIABLES db,        \* Base.metadata tables: model name -> committed rows, in insertion order
          new,       \* the session's pending (added, not flushed) objects, per model
          deactive,  \* the session's transaction was rolled back by a failed flush
          last       \* the last call: function, argument, exception raised, value returned

vars == <<db, new, deactive, last>>

---------------------------------------------------------------------------
(* Bounds and input domains *)

MaxRecords == 3   \* rows (committed + pending) in the single-entity specifications
MaxTotal == 2     \* rows (committed + pending) in the specification of all five entities
MaxBulk == 2      \* length of a list handed to an add_*_bulk function
MaxLimit == 2     \* limit and skip arguments

None == <<>>
Some(x) == <<x>>
NoId == 0

Models == {"Stock", "HistoricalPrice", "LivePrice", "SentimentData", "TradingTip"}

Exchange == {"NSE", "BSE"}
TipType == {"Intraday", "Options", "Swing"}
ActionType == {"Buy", "Sell", "Hold"}

EmptyStr == <<>>

\* The values callers hand in. Wide: two stocks, datetimes T1 < T2 < T3, two case
\* variants of one symbol and another symbol. Narrow: what the specification of all
\* five entities draws from.
Wide == [ids |-> {1, 2}, times |-> {1, 2, 3}, exchanges |-> Exchange,
         symbols |-> {<<"i", "n">>, <<"I", "N">>, <<"T">>}]
Narrow == [ids |-> {1}, times |-> {1, 2}, exchanges |-> {"NSE"},
           symbols |-> {<<"i", "n">>, <<"I", "N">>}]
\* the trading-tip specification: the two case variants of one symbol
TipInputs == [Wide EXCEPT !.symbols = Narrow.symbols]
Times == Wide.times
StockIds == Wide.ids
Symbols == Wide.symbols

---------------------------------------------------------------------------
(* str.upper() *)

UpperChar(c) ==
    CASE c = "i" -> "I"
      [] c = "n" -> "N"
      [] c = "t" -> "T"
      [] OTHER -> c

upper(s) == [i \in DOMAIN s |-> UpperChar(s[i])]

\* Python truthiness of an Optional[str]: None and "" are falsy
Truthy(o) == o # None /\ o[1] # EmptyStr

---------------------------------------------------------------------------
(* The session: add, flush/commit, rollback, close *)

Count(f) == Len(f["Stock"]) + Len(f["HistoricalPrice"]) + Len(f["LivePrice"])
              + Len(f["SentimentData"]) + Len(f["TradingTip"])

Total == Count(db) + Count(new)

Empty == [m \in Models |-> <<>>]

\* Session.add / Session.add_all: the objects join the pending ones of their model
add(pend, model, obj) == [pend EXCEPT ![model] = Append(@, obj)]
add_all(pend, model, objs) == [pend EXCEPT ![model] = @ \o objs]

\* Column(String(50), unique=True): the flush's INSERT of a stock fails when its symbol
\* is already in the table or in an earlier INSERT of the same flush
UniqueViolation(pend) ==
    \E i \in DOMAIN pend["Stock"] :
        \/ \E j \in DOMAIN db["Stock"] : db["Stock"][j].symbol = pend["Stock"][i].symbol
        \/ \E j \in DOMAIN pend["Stock"] : j # i /\ pend["Stock"][j].symbol = pend["Stock"][i].symbol

\* INSERT of the pending rows in the order they were added; autoincrement ids
InsertedReplacing(table, rows) ==
    [i \in 1..Len(rows) |-> [rows[i] EXCEPT !.id = i]]

Inserted(table, rows) ==
    table \o [i \in 1..Len(rows) |-> [rows[i] EXCEPT !.id = Len(table) + i]]

\* what Session.commit() raises with `pend` pending
CommitOutcome(pend) ==
    IF deactive THEN "PendingRollbackError"
    ELSE IF UniqueViolation(pend) THEN "IntegrityError"
    ELSE "none"

\* Session.commit() with `pend` pending: flush everything pending in one transaction,
\* or roll the transaction back, expunge the pending objects and leave the session
\* unusable (every later use of it raises PendingRollbackError)
commit(pend) ==
    CASE CommitOutcome(pend) = "PendingRollbackError" ->
            /\ new' = pend
            /\ UNCHANGED <<db, deactive>>
      [] CommitOutcome(pend) = "IntegrityError" ->
            /\ new' = Empty
            /\ deactive' = TRUE
            /\ UNCHANGED db
      [] OTHER ->
            /\ db' = [m \in Models |-> Inserted(db[m], pend[m])]
            /\ new' = Empty
            /\ UNCHANGED deactive

\* the row db.refresh(obj) loads for the object added last to `model`
Refreshed(pend, model) ==
    LET n == Len(db[model]) + Len(pend[model])
    IN [pend[model][Len(pend[model])] EXCEPT !.id = n]

Call(fn, arg, exc, ret) ==
    [fn |-> fn, arg |-> arg, exc |-> exc, ret |-> ret, staged |-> Count(new)]

\* the caller commits the session (crud.py leaves the commit of staged records to it)
Commit ==
    /\ commit(new)
    /\ last' = Call("commit", None, CommitOutcome(new), None)

\* get_db: the finally clause closes the session (pending objects are expunged, the
\* transaction ends) and the next request is handed a new one by SessionLocal()
get_db ==
    /\ new' = Empty
    /\ deactive' = FALSE
    /\ UNCHANGED db
    /\ last' = Call("get_db", None, "none", None)

---------------------------------------------------------------------------
(* Rows *)

StockRow(symbol, name, exchange) ==
    [id |-> NoId, symbol |-> symbol, name |-> name, exchange |-> exchange]

---------------------------------------------------------------------------
(* Generic functions *)

create_entity(model, entity) ==
    LET pend == add(new, model, entity)
        exc == CommitOutcome(pend)
    IN /\ commit(pend)
       /\ last' = Call("create_entity", None, exc,
                       IF exc = "none" THEN Some(Refreshed(pend, model)) ELSE None)

---------------------------------------------------------------------------
(* Stock *)

\* what a query sees: SessionLocal has autoflush=False, so pending objects are not
\* flushed before a SELECT and only committed rows are visible
autoflush == FALSE

Visible(model) ==
    IF autoflush THEN Inserted(db[model], new[model]) ELSE db[model]

Rows(model) == {Visible(model)[i] : i \in DOMAIN Visible(model)}

\* Query.first() over the rows `rs`, none of them ordered before another: None when
\* there is no row, else one of the rows (the set of values the call may return)
First(rs) == IF rs = {} THEN {None} ELSE {Some(r) : r \in rs}

get_stock(stock_id) ==
    First({r \in Rows("Stock") : r.id = stock_id})

get_stock_by_symbol_exact(symbol) ==
    First({r \in Rows("Stock") : r.symbol = symbol})

get_stock_by_symbol(symbol) ==
    First({r \in Rows("Stock") : r.symbol = upper(symbol)})

create_stock_unnormalized(symbol, name, exchange) ==
    LET db_stock == StockRow(symbol, name, exchange)
        pend == add(new, "Stock", db_stock)
        exc == CommitOutcome(pend)
    IN /\ commit(pend)
       /\ last' = Call("create_stock", Some(symbol), exc,
                       IF exc = "none" THEN Some(Refreshed(pend, "Stock")) ELSE None)

create_stock_own_row_only(symbol, name, exchange) ==
    LET db_stock == StockRow(upper(symbol), name, exchange)
        pend == add(Empty, "Stock", db_stock)
        exc == CommitOutcome(pend)
    IN /\ IF exc = "none"
          THEN db' = [db EXCEPT !["Stock"] = Inserted(@, pend["Stock"])] /\ UNCHANGED <<new, deactive>>
          ELSE commit(add(new, "Stock", db_stock))
       /\ last' = Call("create_stock", Some(symbol), exc,
                       IF exc = "none" THEN Some(Refreshed(pend, "Stock")) ELSE None)

create_stock(symbol, name, exchange) ==
    LET db_stock == StockRow(upper(symbol), name, exchange)
        pend == add(new, "Stock", db_stock)
        exc == CommitOutcome(pend)
    IN /\ commit(pend)
       /\ last' = Call("create_stock", Some(symbol), exc,
                       IF exc = "none" THEN Some(Refreshed(pend, "Stock")) ELSE None)

---------------------------------------------------------------------------
(* Ordered, paginated queries *)

Min(a, b) == IF a < b THEN a ELSE b
Max(a, b) == IF a > b THEN a ELSE b

\* a query of a session whose flush failed raises PendingRollbackError
QueryRaises == deactive

Before(a, b, desc) == IF desc THEN a >= b ELSE a <= b

\* the orderings of keyed rows in which no row comes before one that sorts first
RECURSIVE Orderings(_, _)
Orderings(ks, desc) ==
    IF ks = {} THEN {<<>>}
    ELSE LET firsts == {x \in ks : \A y \in ks : Before(x.key, y.key, desc)}
         IN UNION {{<<x.row>> \o f : f \in Orderings(ks \ {x}, desc)} : x \in firsts}

\* ORDER BY key [DESC] over the rows `rs`: rows with equal keys come in an order the
\* storage engine chooses, so the result is one of these sequences
OrderBy(rs, column, desc) == Orderings({[key |-> r[column], row |-> r] : r \in rs}, desc)

\* no ORDER BY: the rows come in an order the storage engine chooses
Unordered(rs) == Orderings({[key |-> 0, row |-> r] : r \in rs}, FALSE)

\* .offset(skip).limit(limit)
OffsetLimit(seq, skip, limit) == SubSeq(seq, skip + 1, Min(Len(seq), skip + limit))

get_by_id(model, id) == First({r \in Rows(model) : r.id = id})

get_all(model, skip, limit) ==
    {OffsetLimit(f, skip, limit) : f \in Unordered(Rows(model))}

get_stocks(skip, limit) == get_all("Stock", skip, limit)

---------------------------------------------------------------------------
(* HistoricalPrice *)

HistoricalPriceRow(stock_id, date, open, high, low, close, volume) ==
    [id |-> NoId, stock_id |-> stock_id, date |-> date, open |-> open, high |-> high,
     low |-> low, close |-> close, volume |-> volume]

create_historical_price_committing(stock_id, date, open_price, high_price, low_price, close_price, volume) ==
    LET db_price == HistoricalPriceRow(stock_id, date, open_price, high_price, low_price,
                                       close_price, volume)
        pend == add(new, "HistoricalPrice", db_price)
    IN /\ commit(pend)
       /\ last' = Call("create_historical_price", None, CommitOutcome(pend), Some(db_price))

create_historical_price(stock_id, date, open_price, high_price, low_price, close_price, volume) ==
    LET db_price == HistoricalPriceRow(stock_id, date, open_price, high_price, low_price,
                                       close_price, volume)
    IN /\ new' = add(new, "HistoricalPrice", db_price)
       /\ UNCHANGED <<db, deactive>>
       /\ last' = Call("create_historical_price", None, "none", Some(db_price))

add_historical_prices_bulk(prices) ==
    LET pend == add_all(new, "HistoricalPrice", prices)
    IN /\ commit(pend)
       /\ last' = Call("add_historical_prices_bulk", None, CommitOutcome(pend), None)

get_historical_prices_exclusive(stock_id, start_date, end_date, skip, limit) ==
    {OffsetLimit(f, skip, limit) :
        f \in OrderBy({r \in Rows("HistoricalPrice") :
                          r.stock_id = stock_id /\ r.date >= start_date /\ r.date < end_date},
                      "date", FALSE)}

get_historical_prices(stock_id, start_date, end_date, skip, limit) ==
    {OffsetLimit(f, skip, limit) :
        f \in OrderBy({r \in Rows("HistoricalPrice") :
                          r.stock_id = stock_id /\ r.date >= start_date /\ r.date <= end_date},
                      "date", FALSE)}

---------------------------------------------------------------------------
(* LivePrice *)

LivePriceRow(stock_id, timestamp, price, volume) ==
    [id |-> NoId, stock_id |-> stock_id, timestamp |-> timestamp, price |-> price,
     volume |-> volume]

\* `utcnow` is what datetime.datetime.utcnow() returns during the call
create_live_price(stock_id, price, volume, timestamp, utcnow) ==
    LET db_price == LivePriceRow(stock_id, IF timestamp # None THEN timestamp[1] ELSE utcnow,
                                 price, volume)
    IN /\ new' = add(new, "LivePrice", db_price)
       /\ UNCHANGED <<db, deactive>>
       /\ last' = Call("create_live_price", None, "none", Some(db_price))

add_live_prices_bulk(prices) ==
    LET pend == add_all(new, "LivePrice", prices)
    IN /\ commit(pend)
       /\ last' = Call("add_live_prices_bulk", None, CommitOutcome(pend), None)

\* .order_by(timestamp.desc()).first()
get_latest_live_price_any_stock(stock_id) ==
    LET fs == OrderBy(Rows("LivePrice"), "timestamp", TRUE)
    IN {IF Len(f) = 0 THEN None ELSE Some(f[1]) : f \in fs}

get_latest_live_price(stock_id) ==
    LET fs == OrderBy({r \in Rows("LivePrice") : r.stock_id = stock_id},
                      "timestamp", TRUE)
    IN {IF Len(f) = 0 THEN None ELSE Some(f[1]) : f \in fs}

---------------------------------------------------------------------------
(* SentimentData *)

SentimentDataRow(source, timestamp, text, sentiment_score, stock_symbol) ==
    [id |-> NoId, source |-> source, timestamp |-> timestamp, text |-> text,
     sentiment_score |-> sentiment_score, stock_symbol |-> stock_symbol]

create_sentiment_data(source, text, sentiment_score, stock_symbol, timestamp, utcnow) ==
    LET db_sentiment ==
            SentimentDataRow(source, IF timestamp # None THEN timestamp[1] ELSE utcnow, text,
                             sentiment_score,
                             IF Truthy(stock_symbol) THEN Some(upper(stock_symbol[1])) ELSE None)
    IN /\ new' = add(new, "SentimentData", db_sentiment)
       /\ UNCHANGED <<db, deactive>>
       /\ last' = Call("create_sentiment_data", None, "none", Some(db_sentiment))

add_sentiment_data_bulk(sentiments) ==
    LET pend == add_all(new, "SentimentData", sentiments)
    IN /\ commit(pend)
       /\ last' = Call("add_sentiment_data_bulk", None, CommitOutcome(pend), None)

get_sentiment_data(stock_symbol, start_date, end_date, limit) ==
    LET rs == {r \in Rows("SentimentData") :
                  /\ Truthy(stock_symbol) => r.stock_symbol = Some(upper(stock_symbol[1]))
                  /\ start_date # None => r.timestamp >= start_date[1]
                  /\ end_date # None => r.timestamp <= end_date[1]}
    IN {OffsetLimit(f, 0, limit) : f \in OrderBy(rs, "timestamp", TRUE)}

---------------------------------------------------------------------------
(* TradingTip *)

TradingTipRow(timestamp, stock_symbol, tip_type, action, reason, confidence_score) ==
    [id |-> NoId, timestamp |-> timestamp, stock_symbol |-> stock_symbol,
     tip_type |-> tip_type, action |-> action, reason |-> reason,
     confidence_score |-> confidence_score]

create_trading_tip(stock_symbol, tip_type, action, reason, confidence_score, timestamp, utcnow) ==
    LET db_tip == TradingTipRow(IF timestamp # None THEN timestamp[1] ELSE utcnow,
                                upper(stock_symbol), tip_type, action, reason, confidence_score)
    IN /\ new' = add(new, "TradingTip", db_tip)
       /\ UNCHANGED <<db, deactive>>
       /\ last' = Call("create_trading_tip", None, "none", Some(db_tip))

add_trading_tips_bulk(tips) ==
    LET pend == add_all(new, "TradingTip", tips)
    IN /\ commit(pend)
       /\ last' = Call("add_trading_tips_bulk", None, CommitOutcome(pend), None)

get_trading_tips_offset_page(stock_symbol, limit, page) ==
    LET rs == {r \in Rows("TradingTip") :
                  Truthy(stock_symbol) => r.stock_symbol = upper(stock_symbol[1])}
        offset == page * limit
    IN {OffsetLimit(f, offset, limit) : f \in OrderBy(rs, "timestamp", TRUE)}

get_trading_tips(stock_symbol, limit, page) ==
    LET rs == {r \in Rows("TradingTip") :
                  Truthy(stock_symbol) => r.stock_symbol = upper(stock_symbol[1])}
        offset == (page - 1) * limit
    IN {OffsetLimit(f, offset, limit) : f \in OrderBy(rs, "timestamp", TRUE)}

---------------------------------------------------------------------------
(* Specifications *)

Init ==
    /\ db = Empty
    /\ new = Empty
    /\ deactive = FALSE
    /\ last = [fn |-> "SessionLocal", arg |-> None, exc |-> "none", ret |-> None, staged |-> 0]

StockEntities(D) == {StockRow(s, "n", e) : s \in D.symbols, e \in D.exchanges}
HistoricalPriceEntities(D) ==
    {HistoricalPriceRow(k, d, 10, 12, 9, 11, 100) : k \in D.ids, d \in D.times}
LivePriceEntities(D) == {LivePriceRow(k, t, 10, 5) : k \in D.ids, t \in D.times}
OptSymbols(D) == {None, Some(EmptyStr)} \cup {Some(s) : s \in D.symbols}
OptTimes(D) == {None} \cup {Some(t) : t \in D.times}
SentimentDataEntities(D) ==
    {SentimentDataRow("news", t, None, 0, y) :
        t \in D.times, y \in OptSymbols(D) \ {Some(EmptyStr)}}
TradingTipEntities(D) ==
    {TradingTipRow(t, s, "Swing", "Buy", "r", None) : t \in D.times, s \in D.symbols}

Lists(S) == UNION {[1..n -> S] : n \in 0..MaxBulk}

Room(cap, n) == Total + n <= cap

SessionOps ==
    \/ Commit
    \/ get_db

StockOps(cap, D) ==
    \/ \E s \in D.symbols, e \in D.exchanges : Room(cap, 1) /\ create_stock(s, "n", e)
    \/ \E x \in StockEntities(D) : Room(cap, 1) /\ create_entity("Stock", x)

HistoricalPriceOps(cap, D) ==
    \/ \E x \in HistoricalPriceEntities(D) :
          /\ Room(cap, 1)
          /\ create_historical_price(x.stock_id, x.date, x.open, x.high, x.low, x.close, x.volume)
    \/ \E xs \in Lists(HistoricalPriceEntities(D)) :
          Room(cap, Len(xs)) /\ add_historical_prices_bulk(xs)
    \/ \E x \in HistoricalPriceEntities(D) : Room(cap, 1) /\ create_entity("HistoricalPrice", x)

LivePriceOps(cap, D) ==
    \/ \E k \in D.ids, t \in OptTimes(D), utcnow \in D.times :
          Room(cap, 1) /\ create_live_price(k, 10, 5, t, utcnow)
    \/ \E xs \in Lists(LivePriceEntities(D)) : Room(cap, Len(xs)) /\ add_live_prices_bulk(xs)
    \/ \E x \in LivePriceEntities(D) : Room(cap, 1) /\ create_entity("LivePrice", x)

SentimentDataOps(cap, D) ==
    \/ \E y \in OptSymbols(D), t \in OptTimes(D), utcnow \in D.times :
          Room(cap, 1) /\ create_sentiment_data("news", None, 0, y, t, utcnow)
    \/ \E xs \in Lists(SentimentDataEntities(D)) :
          Room(cap, Len(xs)) /\ add_sentiment_data_bulk(xs)
    \/ \E x \in SentimentDataEntities(D) : Room(cap, 1) /\ create_entity("SentimentData", x)

TradingTipOps(cap, D) ==
    \/ \E s \in D.symbols, t \in OptTimes(D), utcnow \in D.times :
          Room(cap, 1) /\ create_trading_tip(s, "Swing", "Buy", "r", None, t, utcnow)
    \/ \E xs \in Lists(TradingTipEntities(D)) :
          Room(cap, Len(xs)) /\ add_trading_tips_bulk(xs)
    \/ \E x \in TradingTipEntities(D) : Room(cap, 1) /\ create_entity("TradingTip", x)

StockNext == StockOps(MaxRecords, Wide) \/ SessionOps
HistoricalPriceNext == HistoricalPriceOps(MaxRecords, Wide) \/ SessionOps
LivePriceNext == LivePriceOps(MaxRecords, Wide) \/ SessionOps
SentimentDataNext == SentimentDataOps(MaxRecords, Wide) \/ SessionOps
TradingTipNext == TradingTipOps(MaxRecords, TipInputs) \/ SessionOps

Next ==
    \/ StockOps(MaxTotal, Narrow)
    \/ HistoricalPriceOps(MaxTotal, Narrow)
    \/ LivePriceOps(MaxTotal, Narrow)
    \/ SentimentDataOps(MaxTotal, Narrow)
    \/ TradingTipOps(MaxTotal, Narrow)
    \/ SessionOps

SpecStock == Init /\ [][StockNext]_vars
SpecHistoricalPrice == Init /\ [][HistoricalPriceNext]_vars
SpecLivePrice == Init /\ [][LivePriceNext]_vars
SpecSentimentData == Init /\ [][SentimentDataNext]_vars
SpecTradingTip == Init /\ [][TradingTipNext]_vars
Spec == Init /\ [][Next]_vars

---------------------------------------------------------------------------
(* Properties *)

Range(seq) == {seq[i] : i \in DOMAIN seq}
Committed(model) == Range(db[model])
Pending(model) == Range(new[model])
NoRepeat(seq) == \A i, j \in DOMAIN seq : i # j => seq[i] # seq[j]
HasSymbol(sym) == \E r \in Committed("Stock") : r.symbol = sym

\* default arguments of the query functions
DefaultHistoricalLimit == 1000
DefaultSentimentLimit == 100
DefaultTipLimit == 20
Limits == 0..MaxLimit
Pages == 1..(MaxRecords + 1)

\* C1: once create_stock(s) has succeeded, get_stock_by_symbol(s2) returns that very
\* record for every case variant s2 of s, and its stored symbol is s.upper(); any
\* committed stock with an upper-case symbol is found by every case variant of it.
C1_CaseInsensitiveRetrieval ==
    /\ (last.fn = "create_stock" /\ last.exc = "none") =>
          /\ last.ret # None
          /\ last.ret[1].symbol = upper(last.arg[1])
          /\ last.ret[1] \in Committed("Stock")
          /\ ~QueryRaises
          /\ \A s2 \in Symbols :
                upper(s2) = upper(last.arg[1]) => get_stock_by_symbol(s2) = {last.ret}
    /\ ~QueryRaises =>
          \A r \in Committed("Stock"), s2 \in Symbols :
              upper(s2) = r.symbol => get_stock_by_symbol(s2) = {Some(r)}

C1_Witness ==
    /\ last.fn = "create_stock" /\ last.exc = "none"
    /\ last.arg[1] # upper(last.arg[1])
    /\ Cardinality(Committed("Stock")) >= 2
    /\ \E s2 \in Symbols : s2 # last.arg[1] /\ get_stock_by_symbol(s2) = {last.ret}

C3_HistoricalRange ==
    ~QueryRaises =>
      \A k \in StockIds, a \in Times, b \in Times, skip \in Limits,
         limit \in Limits \cup {DefaultHistoricalLimit} :
        LET M == {r \in Committed("HistoricalPrice") :
                     r.stock_id = k /\ a <= r.date /\ r.date <= b}
        IN \A res \in get_historical_prices(k, a, b, skip, limit) :
              /\ Range(res) \subseteq M
              /\ NoRepeat(res)
              /\ \A i \in DOMAIN res : i < Len(res) => res[i].date <= res[i + 1].date
              /\ Len(res) = Min(limit, Max(0, Cardinality(M) - skip))
              /\ \A i \in DOMAIN res :
                    /\ Cardinality({r \in M : r.date < res[i].date}) <= skip + i - 1
                    /\ Cardinality({r \in M : r.date <= res[i].date}) >= skip + i
              /\ (skip = 0 /\ limit = DefaultHistoricalLimit) => Range(res) = M

C3_Witness ==
    /\ ~QueryRaises
    /\ \E k \in StockIds, a \in Times, b \in Times :
          /\ a < b
          /\ \E res \in get_historical_prices(k, a, b, 0, DefaultHistoricalLimit) :
                Len(res) = 2 /\ res[1].date = a /\ res[2].date = b /\ res[1].id > res[2].id
          /\ \E r \in Committed("HistoricalPrice") : r.stock_id = k /\ (r.date < a \/ r.date > b)

\* C4 as amended: get_latest_live_price(stock_id) returns None when no live price of
\* the stock is committed, and else a committed row of that stock whose timestamp is
\* the greatest among the committed rows of that stock; rows only staged by
\* create_live_price are not looked at.
C4_LatestCommittedLivePrice ==
    ~QueryRaises =>
      \A k \in StockIds :
        LET C == {r \in Committed("LivePrice") : r.stock_id = k}
        IN \A res \in get_latest_live_price(k) :
              IF C = {} THEN res = None
              ELSE /\ res # None
                   /\ res[1] \in C
                   /\ \A r \in C : r.timestamp <= res[1].timestamp

C4_Witness ==
    /\ ~QueryRaises
    /\ \E k \in StockIds :
          LET C == {r \in Committed("LivePrice") : r.stock_id = k}
          IN /\ {r.timestamp : r \in C} = {1, 2, 3}
             /\ \E res \in get_latest_live_price(k) :
                   res # None /\ res[1].timestamp = 3 /\ res[1].id # Len(db["LivePrice"])

\* C4 as claimed: once live prices have been inserted for a stock by create_live_price
\* and/or add_live_prices_bulk, get_latest_live_price returns the one with the
\* greatest timestamp.
C4_Original ==
    ~QueryRaises =>
      \A k \in StockIds :
        LET I == {r \in Committed("LivePrice") \cup Pending("LivePrice") : r.stock_id = k}
        IN I # {} =>
             \A res \in get_latest_live_price(k) :
                /\ res # None
                /\ res[1].stock_id = k
                /\ \A r \in I : r.timestamp <= res[1].timestamp

OptFilters == {None, Some(EmptyStr)} \cup {Some(s) : s \in Symbols}
TipsOf(y) == {r \in Committed("TradingTip") : Truthy(y) => r.stock_symbol = upper(y[1])}
DistinctTimestamps(rs) == \A r1, r2 \in rs : r1.timestamp = r2.timestamp => r1 = r2

\* each page is a slice of a timestamp-descending ordering of the filtered committed tips
PageIsSlice(F, L, p, results) ==
    LET skip == (p - 1) * L
    IN \A res \in results :
          /\ Range(res) \subseteq F
          /\ NoRepeat(res)
          /\ \A i \in DOMAIN res : i < Len(res) => res[i].timestamp >= res[i + 1].timestamp
          /\ Len(res) = Min(L, Max(0, Cardinality(F) - skip))
          /\ \A i \in DOMAIN res :
                /\ Cardinality({r \in F : r.timestamp > res[i].timestamp}) <= skip + i - 1
                /\ Cardinality({r \in F : r.timestamp >= res[i].timestamp}) >= skip + i

\* pages 1, 2, ... are disjoint and every filtered tip is on exactly one of them
\* (`page[p]` is what the call for page p may return)
PagesPartition(F, page) ==
    /\ \A p1, p2 \in Pages :
          p1 # p2 => \A r1 \in page[p1], r2 \in page[p2] : Range(r1) \cap Range(r2) = {}
    /\ \A r \in F : Cardinality({p \in Pages : \E res \in page[p] : r \in Range(res)}) = 1

TipLimits == (1..MaxLimit) \cup {DefaultTipLimit}

C6_Original ==
    ~QueryRaises =>
      \A s \in Symbols :
         LET M == {r \in Committed("SentimentData") :
                      r.stock_symbol # None /\ upper(r.stock_symbol[1]) = upper(s)}
         IN \A res \in get_sentiment_data(Some(s), None, None, DefaultSentimentLimit) :
               /\ Range(res) = M
               /\ \A i \in DOMAIN res : i < Len(res) => res[i].timestamp >= res[i + 1].timestamp

\* C7: a step of any function leaves every committed row in place and unchanged; the
\* tables only grow.
C7_AppendOnly ==
    [][\A m \in Models :
          /\ Len(db'[m]) >= Len(db[m])
          /\ \A i \in DOMAIN db[m] : db'[m][i] = db[m][i]]_vars

C7_Witness ==
    /\ Count(db) >= 1
    /\ last.exc = "IntegrityError"
    /\ deactive

StagingCreates ==
    {"create_historical_price", "create_live_price", "create_sentiment_data", "create_trading_tip"}
SingleCreates == StagingCreates \cup {"create_stock"}
CommittingFunctions ==
    {"create_stock", "create_entity", "add_historical_prices_bulk", "add_live_prices_bulk",
     "add_sentiment_data_bulk", "add_trading_tips_bulk"}

\* C8 as amended: create_historical_price, create_live_price, create_sentiment_data and
\* create_trading_tip add the returned record to the session's pending objects and
\* leave the committed tables unchanged; create_stock commits: when it succeeds the
\* stock it returns is in the stocks table.
C8_SingleCreatesStage ==
    [][/\ last'.fn \in StagingCreates =>
            /\ db' = db
            /\ last'.exc = "none"
            /\ \E m \in Models : new' = add(new, m, last'.ret[1])
       /\ (last'.fn = "create_stock" /\ last'.exc = "none") =>
            /\ Len(db'["Stock"]) = Len(db["Stock"]) + 1
            /\ db'["Stock"][Len(db'["Stock"])] = last'.ret[1]]_vars

C8_Witness ==
    /\ last.fn \in StagingCreates
    /\ Count(db) >= 1
    /\ \E m \in Models : new[m] = <<last.ret[1]>>

\* C8 as claimed: every single-record create function, create_stock included, leaves
\* the committed tables unchanged.
C8_Original ==
    [][last'.fn \in SingleCreates => db' = db]_vars

\* C9 as claimed: every committed Stock.symbol, TradingTip.stock_symbol and non-null
\* SentimentData.stock_symbol equals its own upper-cased form.
C9_Original ==
    /\ \A r \in Committed("Stock") : r.symbol = upper(r.symbol)
    /\ \A r \in Committed("TradingTip") : r.stock_symbol = upper(r.stock_symbol)
    /\ \A r \in Committed("SentimentData") :
          r.stock_symbol # None => r.stock_symbol[1] = upper(r.stock_symbol[1])

\* C10: when create_stock, create_entity or an add_*_bulk function returns without an
\* exception, every object that was pending in the session before the call is a row
\* of its table after it, and the session has no pending object left.
C10_CommitIsSessionWide ==
    [][(last'.fn \in CommittingFunctions /\ last'.exc = "none") =>
          /\ new' = Empty
          /\ \A m \in Models :
                /\ Len(db'[m]) >= Len(db[m]) + Len(new[m])
                /\ \A i \in DOMAIN new[m] :
                      [db'[m][Len(db[m]) + i] EXCEPT !.id = NoId] = new[m][i]]_vars

C10_Witness ==
    /\ last.fn = "create_stock"
    /\ last.exc = "none"
    /\ last.staged >= 1
    /\ new = Empty
    /\ Count(db) = last.staged + 1

====
